---- MODULE Spec2Model ----
(***************************************************************************)
(* Karl Eido (src/karl-eido.c): a triangular grid of mirrored pixels,      *)
(* driven by a keypad.  The module models                                  *)
(*   - the geometry (triangle_height, get_triangle_vertices,               *)
(*     get_triangle_center, point_in_triangle) with the single precision   *)
(*     arithmetic of the C code reproduced on integers,                    *)
(*   - the dash-dot Bresenham rasterizer,                                  *)
(*   - the pixel sampler generate_random_pixels,                           *)
(*   - handle_input and the start-up, event loop and cleanup of karl_main, *)
(*   - the host's GUI thread running render_callback.                      *)
(***************************************************************************)
EXTENDS Integers, Sequences, FiniteSets, TLC

(***************************************************************************)
(* Program constants.                                                      *)
(***************************************************************************)
SCREEN_WIDTH == 128
SCREEN_HEIGHT == 64
MIN_SIDE_LENGTH == 5
MAX_SIDE_LENGTH == 63
SIDE_LENGTH_STEP == 2
CENTER_Y == 31
DASH_DOT_PATTERN_LENGTH == 5
DASH_DOT_PATTERN == <<1, 0, 1, 1, 0>>
MAX_PIXELS == 200

(***************************************************************************)
(* Single precision floating point on integers.  A float is 24 significant *)
(* bits; every operation rounds to nearest, ties to even.  All integers    *)
(* below stay under 2^31.                                                  *)
(***************************************************************************)
\* Significant bits of a float.
FLT_MANT_DIG == 24

Abs(n) == IF n < 0 THEN -n ELSE n

Max(a, b) == IF a > b THEN a ELSE b

\* The number of low bits that P (> 0) loses when it is cut to 24 bits.
RECURSIVE ExcessBits(_)
ExcessBits(P) == IF P < 2^FLT_MANT_DIG THEN 0 ELSE 1 + ExcessBits(P \div 2)

\* n / 2^s rounded to the nearest integer, ties to the even one.
RoundShift(n, s) ==
    IF s = 0 THEN n
    ELSE LET q == n \div (2^s)
             r == n % (2^s)
             half == 2^(s - 1)
         IN  IF r > half \/ (r = half /\ q % 2 = 1) THEN q + 1 ELSE q

\* P (> 0) rounded to 24 significant bits, as an integer of the same unit.
RoundFloat(P) == LET s == ExcessBits(P) IN RoundShift(P, s) * (2^s)

\* floor(log2(n)) for n >= 1.
RECURSIVE Log2(_)
Log2(n) == IF n < 2 THEN 0 ELSE 1 + Log2(n \div 2)

\* (int)(P / Q) for floats P = p * 2^j and Q = q * 2^j, 0 < p, q < 2^31:
\* the quotient n = p div q, or n + 1 when the exact quotient lies within half
\* a unit in the last place below n + 1 and the division rounds up to it.
TruncFloatDiv(p, q) ==
    LET n == p \div q
        rem == p % q
        d == q - rem
        e == Log2(Max(n, 1))
    IN  IF rem = 0 THEN n
        ELSE IF n >= 1 /\ d <= q \div (2^(FLT_MANT_DIG - e)) THEN n + 1
        ELSE n

\* The float (float)p / (float)q for integers 0 < p <= q < 2^13, as
\* [m, k]: the value m * 2^(-23-k) with 2^23 <= m <= 2^24.
FloatQuot(p, q) ==
    LET k == CHOOSE j \in 0..17 : p * (2^j) >= q /\ (j = 0 \/ p * (2^(j - 1)) < q)
        r0 == p * (2^k) - q
        t1 == r0 * (2^12)
        d1 == t1 \div q
        r1 == t1 % q
        t2 == r1 * (2^11)
        d2 == t2 \div q
        r2 == t2 % q
        m == 2^23 + d1 * (2^11) + d2
        up == 2 * r2 > q \/ (2 * r2 = q /\ m % 2 = 1)
    IN  [m |-> IF up THEN m + 1 ELSE m, k |-> k]

\* 1.0f - a for a float 0 < a <= 1 given as [m, k], in units of 2^-24.
\* For a >= 1/2 the difference is exact; below, it lies in (1/2, 1) and is
\* rounded to a multiple of 2^-24.
FloatOneMinus(a) ==
    IF a.k = 0 THEN 0
    ELSE 2^FLT_MANT_DIG - RoundShift(a.m, a.k - 1)

\* x >= b, for x in units of 2^-24 and the float b = [m, k].
GeqFloat(x, b) ==
    IF b.k = 0 THEN x >= 2 * b.m
    ELSE LET s == 2^(b.k - 1)
         IN  x >= (b.m + s - 1) \div s

(***************************************************************************)
(* Geometry.                                                               *)
(***************************************************************************)
\* 0.866025404f = COS30_MANT * 2^-24.
COS30_MANT == 14529495

\* triangle_height(side_length) = (float)side_length * 0.866025404f, in units
\* of 2^-24.
triangle_height(side_length) == RoundFloat(side_length * COS30_MANT)

\* (int)h.
TruncHeight(side_length) == triangle_height(side_length) \div (2^FLT_MANT_DIG)

\* h = HeightMant * 2^(HeightShift - 24) with HeightMant < 2^24.
HeightShift(side_length) == ExcessBits(side_length * COS30_MANT)

HeightMant(side_length) ==
    triangle_height(side_length) \div (2^HeightShift(side_length))

\* base_x = (int)(col * h) for col >= 0: col is converted to float, the
\* product is rounded to a float and cut to an integer.
BaseX(col, side_length) ==
    IF col = 0 THEN 0
    ELSE RoundFloat(col * HeightMant(side_length))
             \div (2^(FLT_MANT_DIG - HeightShift(side_length)))

\* C's integer division, which truncates toward zero.
CDiv(a, b) == IF a >= 0 THEN a \div b ELSE -((-a) \div b)

\* base_y = CENTER_Y + (row * side_length / 2).
BaseY(row, side_length) == CENTER_Y + CDiv(row * side_length, 2)

Pt(x, y) == [x |-> x, y |-> y]

get_triangle_vertices(col, row, side_length, pointing_right) ==
    LET base_x == BaseX(col, side_length)
        base_y == BaseY(row, side_length)
        ih == TruncHeight(side_length)
        half == side_length \div 2
    IN  IF pointing_right
        THEN << Pt(base_x, base_y - half),
                Pt(base_x, base_y + half),
                Pt(base_x + ih, base_y) >>
        ELSE << Pt(base_x, base_y),
                Pt(base_x + ih, base_y - half),
                Pt(base_x + ih, base_y + half) >>

get_triangle_center(vertices) ==
    Pt(CDiv(vertices[1].x + vertices[2].x + vertices[3].x, 3),
       CDiv(vertices[1].y + vertices[2].y + vertices[3].y, 3))

\* One barycentric weight num / (float)denom as a float, or "neg" when it is
\* negative, "zero" when it is 0, "big" when it exceeds 1.
Weight(num, denom) ==
    IF num = 0 THEN [kind |-> "zero"]
    ELSE IF (num < 0) # (denom < 0) THEN [kind |-> "neg"]
    ELSE IF Abs(num) > Abs(denom) THEN [kind |-> "big"]
    ELSE [kind |-> "in", f |-> FloatQuot(Abs(num), Abs(denom))]

point_in_triangle(px, py, vertices) ==
    LET x0 == vertices[1].x
        y0 == vertices[1].y
        x1 == vertices[2].x
        y1 == vertices[2].y
        x2 == vertices[3].x
        y2 == vertices[3].y
        denom == (y1 - y2) * (x0 - x2) + (x2 - x1) * (y0 - y2)
        a == Weight((y1 - y2) * (px - x2) + (x2 - x1) * (py - y2), denom)
        b == Weight((y2 - y0) * (px - x2) + (x0 - x2) * (py - y2), denom)
        \* 1.0f - a, in units of 2^-24
        oneMinusA == IF a.kind = "zero" THEN 2^FLT_MANT_DIG ELSE FloatOneMinus(a.f)
    IN  /\ denom # 0
        /\ a.kind \in {"zero", "in"}
        /\ b.kind \in {"zero", "in"}
        \* c = 1.0f - a - b >= 0; c <= 1 follows from a >= 0 and b >= 0
        /\ (b.kind = "zero" \/ GeqFloat(oneMinusA, b.f))

\* num_cols = (int)(SCREEN_WIDTH / h) + 2: 128 / h is 2^(31-s) / HeightMant.
NumCols(side_length) ==
    TruncFloatDiv(SCREEN_WIDTH * (2^(FLT_MANT_DIG - HeightShift(side_length))),
                  HeightMant(side_length)) + 2

\* num_rows = (int)(SCREEN_HEIGHT / (side_length / 2.0f)) + 2: side_length / 2.0f
\* is exact, and the quotient is that of 2 * SCREEN_HEIGHT by side_length.
NumRows(side_length) == TruncFloatDiv(2 * SCREEN_HEIGHT, side_length) + 2

(***************************************************************************)
(* Bounds of the model.                                                    *)
(***************************************************************************)
\* rand() returns a value of 0..MaxRand.
MaxRand == 3
\* Right is pressed while num_random_pixels is below this.
MaxRequested == 1
\* Input events waiting in the event queue (the queue itself holds 8).
MaxQueue == 1
\* Right presses beyond MAX_PIXELS, where the buffer's capacity is explored.
CapSlack == 1
\* The end points of a dash-dot line lie in (0..MaxCoord) x (0..MaxCoord).
MaxCoord == 5

RandValues == 0..MaxRand

Keys == {"Up", "Down", "Left", "Right", "Ok", "Back", "Other"}

Types == {"Press", "Repeat", "Release"}

Events == [key : Keys, type : Types]

Ev(k, t) == [key |-> k, type |-> t]

(***************************************************************************)
(* State.                                                                  *)
(*   pc            where karl_main is                                      *)
(*   state         the AppState record; pixel_buffer holds the entries     *)
(*                 below pixel_count, the only ones ever read              *)
(*   queue         event_queue: the input events put and not yet got       *)
(*   update_calls  the view_port_update calls of the latest loop iteration *)
(*   acquired      the resources acquired, in order                        *)
(*   released      the resources released, in order                        *)
(*   ret           <<v>> once karl_main has returned v                     *)
(*   rand_values   the values rand() may return                            *)
(*   max_requested the bound on num_random_pixels                          *)
(*   event_kinds   the input events the host may deliver                   *)
(*   hpc, trial_i  where handle_input is, and its loop index i, when its   *)
(*                 steps are taken one at a time                           *)
(*   frame         what the latest render_callback read of AppState        *)
(*   line, trace   one canvas_draw_line_dash_dot call and the pixels it    *)
(*                 has visited                                             *)
(*   grid          draw_pattern's loop over the cells of the lattice       *)
(*   sample        one trial of the sampler                                *)
(***************************************************************************)
VARIABLES pc, state, queue, update_calls, acquired, released, ret,
          rand_values, max_requested, event_kinds,
          hpc, trial_i, frame, line, trace, grid, sample

vars == <<pc, state, queue, update_calls, acquired, released, ret,
          rand_values, max_requested, event_kinds,
          hpc, trial_i, frame, line, trace, grid, sample>>

appVars == <<pc, state, queue, update_calls, acquired, released, ret>>

envVars == <<rand_values, max_requested, event_kinds>>

\* The AppState memory before karl_main has set its fields.
NoState ==
    [side_length |-> 0, num_random_pixels |-> 0, show_centers |-> FALSE,
     running |-> FALSE, pixel_buffer |-> <<>>, pixel_count |-> 0]

\* The fields as karl_main sets them.
InitialState ==
    [side_length |-> MIN_SIDE_LENGTH, num_random_pixels |-> 0,
     show_centers |-> FALSE, running |-> TRUE,
     pixel_buffer |-> <<>>, pixel_count |-> 0]

(***************************************************************************)
(* generate_random_pixels.                                                 *)
(***************************************************************************)
\* The point one trial draws when rand() returns r1 and then r2.
Candidate(side_length, r1, r2) ==
    LET base_vertices == get_triangle_vertices(0, 0, side_length, TRUE)
    IN  Pt(base_vertices[1].x + (r1 % (TruncHeight(side_length) + 1)),
           base_vertices[1].y - side_length \div 2 + (r2 % (side_length + 1)))

\* Whether a trial stores the point it drew.
Stored(p, base_vertices, base_center) ==
    /\ point_in_triangle(p.x, p.y, base_vertices)
    /\ ~(p.x = base_center.x /\ p.y = base_center.y)

\* What one trial appends to the buffer: <<p>> or nothing, for every draw.
TrialOutcomes(side_length, rv) ==
    LET base_vertices == get_triangle_vertices(0, 0, side_length, TRUE)
        base_center == get_triangle_center(base_vertices)
    IN  { LET p == Candidate(side_length, r[1], r[2])
          IN  IF Stored(p, base_vertices, base_center) THEN <<p>> ELSE <<>>
          : r \in rv \X rv }

\* Mutant of TrialGuard: the capacity of the buffer is not tested.
TrialGuardNoCap(i, n, count) == i < n

\* The loop condition: i < num_random_pixels && pixel_count < MAX_PIXELS.
TrialGuard(i, n, count) == i < n /\ count < MAX_PIXELS

\* The buffers the loop can end with, from the buffers bufs before trial i.
RECURSIVE TrialLoop(_, _, _, _)
TrialLoop(bufs, i, n, outcomes) ==
    IF \A b \in bufs : ~TrialGuard(i, n, Len(b)) THEN bufs
    ELSE TrialLoop(UNION { IF TrialGuard(i, n, Len(b))
                              THEN { b \o o : o \in outcomes }
                              ELSE { b } : b \in bufs },
                   i + 1, n, outcomes)

\* The states generate_random_pixels can leave, by the values rv of rand().
generate_random_pixels(st, rv) ==
    IF st.side_length < MIN_SIDE_LENGTH THEN { st }
    ELSE { [st EXCEPT !.pixel_buffer = b, !.pixel_count = Len(b)] :
             b \in TrialLoop({ <<>> }, 0, st.num_random_pixels,
                             TrialOutcomes(st.side_length, rv)) }

(***************************************************************************)
(* handle_input.  Each key gives the fields it writes and the two flags.   *)
(***************************************************************************)
Handled(st, changed, regen) ==
    [st |-> st, state_changed |-> changed, regenerate_pixels |-> regen]

\* Mutant of OnKeyUp: the bound is tested with <=.
OnKeyUpOffByOne(st) ==
    IF st.side_length <= MAX_SIDE_LENGTH
    THEN Handled([st EXCEPT !.side_length = @ + SIDE_LENGTH_STEP], TRUE, TRUE)
    ELSE Handled(st, FALSE, FALSE)

OnKeyUp(st) ==
    IF st.side_length < MAX_SIDE_LENGTH
    THEN Handled([st EXCEPT !.side_length = @ + SIDE_LENGTH_STEP], TRUE, TRUE)
    ELSE Handled(st, FALSE, FALSE)

\* Mutant of OnKeyDown: regenerate_pixels is not set.
OnKeyDownStale(st) ==
    IF st.side_length > MIN_SIDE_LENGTH
    THEN Handled([st EXCEPT !.side_length = @ - SIDE_LENGTH_STEP], TRUE, FALSE)
    ELSE Handled(st, FALSE, FALSE)

OnKeyDown(st) ==
    IF st.side_length > MIN_SIDE_LENGTH
    THEN Handled([st EXCEPT !.side_length = @ - SIDE_LENGTH_STEP], TRUE, TRUE)
    ELSE Handled(st, FALSE, FALSE)

\* Mutant of OnKeyLeft: state_changed is not set.
OnKeyLeftSilent(st) ==
    IF st.num_random_pixels > 0
    THEN Handled([st EXCEPT !.num_random_pixels = @ - 1], FALSE, TRUE)
    ELSE Handled(st, FALSE, FALSE)

OnKeyLeft(st) ==
    IF st.num_random_pixels > 0
    THEN Handled([st EXCEPT !.num_random_pixels = @ - 1], TRUE, TRUE)
    ELSE Handled(st, FALSE, FALSE)

OnKeyRight(st) ==
    Handled([st EXCEPT !.num_random_pixels = @ + 1], TRUE, TRUE)

OnKeyOk(event, st) ==
    IF event.type = "Press"
    THEN Handled([st EXCEPT !.show_centers = ~@], TRUE, FALSE)
    ELSE Handled(st, FALSE, FALSE)

\* Mutant of OnKeyBack: running is left as it is.
OnKeyBackIgnored(st) == Handled(st, FALSE, FALSE)

OnKeyBack(st) == Handled([st EXCEPT !.running = FALSE], FALSE, FALSE)

\* The switch on event->key.
KeySwitch(event, st) ==
    CASE event.key = "Up" -> OnKeyUp(st)
      [] event.key = "Down" -> OnKeyDown(st)
      [] event.key = "Left" -> OnKeyLeft(st)
      [] event.key = "Right" -> OnKeyRight(st)
      [] event.key = "Ok" -> OnKeyOk(event, st)
      [] event.key = "Back" -> OnKeyBack(st)
      [] OTHER -> Handled(st, FALSE, FALSE)

\* The outcomes [st, changed] of handle_input(event, st): st the AppState it
\* leaves, changed its return value.
handle_input(event, st, rv) ==
    IF event.type # "Press" /\ event.type # "Repeat"
    THEN { [st |-> st, changed |-> FALSE] }
    ELSE LET r == KeySwitch(event, st)
         IN  IF r.regenerate_pixels
             THEN { [st |-> g, changed |-> r.state_changed] :
                      g \in generate_random_pixels(r.st, rv) }
             ELSE { [st |-> r.st, changed |-> r.state_changed] }

(***************************************************************************)
(* karl_main: start-up, the event loop, cleanup.                           *)
(***************************************************************************)
otherVars == <<hpc, trial_i, frame, line, trace, grid, sample>>

\* What karl_main and input_callback leave alone.
restVars == <<envVars, otherVars>>

\* The return statement: karl_main ends with value v.
Return(v, where) == ret' = <<v>> /\ pc' = where

\* state = malloc(sizeof(AppState)).
AllocState ==
    /\ pc = "start"
    /\ \/ /\ acquired' = Append(acquired, "state")
          /\ pc' = "alloc_buffer"
          /\ UNCHANGED <<released, ret>>
       \/ /\ Return(-1, "failed")
          /\ UNCHANGED <<acquired, released>>
    /\ UNCHANGED <<state, queue, update_calls, restVars>>

\* state->pixel_buffer = malloc(...); the fields are set and the initial
\* pixel set is generated.
AllocPixelBuffer ==
    /\ pc = "alloc_buffer"
    /\ \/ /\ acquired' = Append(acquired, "pixel_buffer")
          /\ state' \in generate_random_pixels(InitialState, rand_values)
          /\ pc' = "alloc_queue"
          /\ UNCHANGED <<released, ret>>
       \/ /\ released' = released \o <<"state">>
          /\ Return(-1, "failed")
          /\ UNCHANGED <<acquired, state>>
    /\ UNCHANGED <<queue, update_calls, restVars>>

\* event_queue = furi_message_queue_alloc(8, sizeof(InputEvent)).
AllocQueue ==
    /\ pc = "alloc_queue"
    /\ \/ /\ acquired' = Append(acquired, "event_queue")
          /\ pc' = "alloc_view_port"
          /\ UNCHANGED <<released, ret>>
       \/ /\ released' = released \o <<"pixel_buffer", "state">>
          /\ Return(-1, "failed")
          /\ UNCHANGED acquired
    /\ UNCHANGED <<state, queue, update_calls, restVars>>

\* Mutant of AllocViewPort: the failure path does not free the event queue.
AllocViewPortLeak ==
    /\ pc = "alloc_view_port"
    /\ \/ /\ acquired' = Append(acquired, "view_port")
          /\ pc' = "open_gui"
          /\ UNCHANGED <<released, ret>>
       \/ /\ released' = released \o <<"pixel_buffer", "state">>
          /\ ret' = <<-1>>
          /\ pc' = "failed"
          /\ UNCHANGED acquired
    /\ UNCHANGED <<state, queue, update_calls, hpc, trial_i, frame, line,
                   trace, grid, sample, rand_values, max_requested, event_kinds>>

\* view_port = view_port_alloc().
AllocViewPort ==
    /\ pc = "alloc_view_port"
    /\ \/ /\ acquired' = Append(acquired, "view_port")
          /\ pc' = "open_gui"
          /\ UNCHANGED <<released, ret>>
       \/ /\ released' = released \o <<"event_queue", "pixel_buffer", "state">>
          /\ Return(-1, "failed")
          /\ UNCHANGED acquired
    /\ UNCHANGED <<state, queue, update_calls, restVars>>

\* The callbacks are set, the GUI record is opened and the view port added.
OpenGui ==
    /\ pc = "open_gui"
    /\ acquired' = Append(acquired, "gui")
    /\ pc' = "loop"
    /\ UNCHANGED <<state, queue, update_calls, released, ret, restVars>>

\* One loop iteration whose furi_message_queue_get returns an event:
\* handle_input, and view_port_update when it returns true.
LoopEvent ==
    /\ pc = "loop"
    /\ state.running
    /\ queue # <<>>
    /\ \E out \in handle_input(Head(queue), state, rand_values) :
          /\ state' = out.st
          /\ update_calls' = IF out.changed THEN 1 ELSE 0
    /\ queue' = Tail(queue)
    /\ UNCHANGED <<pc, acquired, released, ret, restVars>>

\* One loop iteration whose furi_message_queue_get times out.
LoopTimeout ==
    /\ pc = "loop"
    /\ state.running
    /\ queue = <<>>
    /\ update_calls' = 0
    /\ UNCHANGED <<pc, state, queue, acquired, released, ret, restVars>>

\* while(state->running) finds running false.
LoopExit ==
    /\ pc = "loop"
    /\ ~state.running
    /\ pc' = "cleanup"
    /\ UNCHANGED <<state, queue, update_calls, acquired, released, ret, restVars>>

\* The cleanup, and return 0.
Cleanup ==
    /\ pc = "cleanup"
    /\ released' = released \o
           <<"view_port", "event_queue", "gui", "pixel_buffer", "state">>
    /\ Return(0, "done")
    /\ UNCHANGED <<state, queue, update_calls, acquired, restVars>>

\* The Right presses and repeats waiting in q.
RECURSIVE RightsIn(_)
RightsIn(q) ==
    IF q = <<>> THEN 0
    ELSE (IF Head(q).key = "Right" /\ Head(q).type \in {"Press", "Repeat"}
          THEN 1 ELSE 0) + RightsIn(Tail(q))

\* input_callback, run by the host while the view port is registered: the
\* event is put on the queue.
InputCallback ==
    /\ pc = "loop"
    /\ Len(queue) < MaxQueue
    /\ \E ev \in event_kinds :
          /\ ev.key = "Right" /\ ev.type \in {"Press", "Repeat"}
                => state.num_random_pixels + RightsIn(queue) < max_requested
          /\ queue' = Append(queue, ev)
    /\ UNCHANGED <<pc, state, update_calls, acquired, released, ret, restVars>>

MainThread ==
    \/ AllocState
    \/ AllocPixelBuffer
    \/ AllocQueue
    \/ AllocViewPort
    \/ OpenGui
    \/ LoopEvent
    \/ LoopTimeout
    \/ LoopExit
    \/ Cleanup

AppInit ==
    /\ pc = "start"
    /\ state = NoState
    /\ queue = <<>>
    /\ update_calls = 0
    /\ acquired = <<>>
    /\ released = <<>>
    /\ ret = <<>>

OtherIdle ==
    /\ hpc = "idle"
    /\ trial_i = 0
    /\ frame = <<>>
    /\ line = <<>>
    /\ trace = <<>>
    /\ grid = <<>>
    /\ sample = <<>>

Init ==
    /\ AppInit
    /\ OtherIdle
    /\ rand_values = RandValues
    /\ max_requested = MaxRequested
    /\ event_kinds = Events

Next == MainThread \/ InputCallback

Spec == Init /\ [][Next]_vars

\* The application's thread keeps being scheduled: it tests the loop condition
\* and, out of the loop, runs the cleanup.
FairSpec == Spec /\ WF_vars(LoopExit) /\ WF_vars(Cleanup)

\* The buffer's capacity: rand() returns one value, whose point the smallest
\* triangle stores, and Left, Right and Back are pressed.
CapInit ==
    /\ AppInit
    /\ OtherIdle
    /\ rand_values = {MaxRand + 1}
    /\ max_requested = MAX_PIXELS + CapSlack
    /\ event_kinds = {Ev(k, "Press") : k \in {"Left", "Right", "Back"}}

\* The runs of Spec, and the runs that fill the buffer.
CapSpec == (Init \/ CapInit) /\ [][Next]_vars

(***************************************************************************)
(* canvas_draw_line_dash_dot, one loop iteration at a time.                *)
(***************************************************************************)
\* The locals after the declarations, before the loop.
LineCall(x1, y1, x2, y2) ==
    [x1 |-> x1, y1 |-> y1, x2 |-> x2, y2 |-> y2,
     dx |-> Abs(x2 - x1), dy |-> Abs(y2 - y1),
     sx |-> IF x1 < x2 THEN 1 ELSE -1,
     sy |-> IF y1 < y2 THEN 1 ELSE -1,
     err |-> Abs(x2 - x1) - Abs(y2 - y1),
     pattern_index |-> 0, x |-> x1, y |-> y1, pc |-> "loop"]

\* The Bresenham step at the end of an iteration.
BresenhamStep(l) ==
    LET e2 == 2 * l.err
        stepX == e2 > -l.dy
        stepY == e2 < l.dx
    IN  [l EXCEPT !.err = @ - (IF stepX THEN l.dy ELSE 0) + (IF stepY THEN l.dx ELSE 0),
                  !.x = IF stepX THEN @ + l.sx ELSE @,
                  !.y = IF stepY THEN @ + l.sy ELSE @]

\* Mutant of NextPatternIndex: the pattern is taken to be 4 long.
NextPatternIndexShort(i) == (i + 1) % (DASH_DOT_PATTERN_LENGTH - 1)

\* pattern_index = (pattern_index + 1) % DASH_DOT_PATTERN_LENGTH.
NextPatternIndex(i) == (i + 1) % DASH_DOT_PATTERN_LENGTH

\* One iteration of while(true): the pixel is drawn or skipped, the pattern
\* moves on, and the loop ends at the end point or steps.
LineStep ==
    /\ line # <<>>
    /\ line.pc = "loop"
    /\ trace' = Append(trace, [x |-> line.x, y |-> line.y,
                               drawn |-> DASH_DOT_PATTERN[line.pattern_index + 1] = 1])
    /\ LET l == [line EXCEPT !.pattern_index = NextPatternIndex(@)]
       IN  line' = IF l.x = l.x2 /\ l.y = l.y2
                   THEN [l EXCEPT !.pc = "done"]
                   ELSE BresenhamStep(l)
    /\ UNCHANGED <<appVars, envVars, hpc, trial_i, frame, grid, sample>>

Coords == 0..MaxCoord

LineInit ==
    /\ AppInit
    /\ rand_values = RandValues
    /\ max_requested = MaxRequested
    /\ event_kinds = Events
    /\ hpc = "idle"
    /\ trial_i = 0
    /\ frame = <<>>
    /\ grid = <<>>
    /\ sample = <<>>
    /\ trace = <<>>
    /\ \E x1 \in Coords, y1 \in Coords, x2 \in Coords, y2 \in Coords :
          line = LineCall(x1, y1, x2, y2)

LineNext == LineStep

LineSpec == LineInit /\ [][LineNext]_vars

(***************************************************************************)
(* draw_pattern's loop over the cells of the lattice.                      *)
(***************************************************************************)
\* bool pointing_right = ((col + row) % 2 == 0).
PointingRight(col, row) == (col + row) % 2 = 0

\* The cell (col, row) as the loop body computes it.
Cell(side_length, col, row) ==
    [side |-> side_length, col |-> col, row |-> row,
     pointing_right |-> PointingRight(col, row),
     vertices |-> get_triangle_vertices(col, row, side_length,
                                        PointingRight(col, row)),
     pc |-> "cell"]

\* The side lengths the application reaches.
ReachableSides ==
    { s \in MIN_SIDE_LENGTH..MAX_SIDE_LENGTH :
        (s - MIN_SIDE_LENGTH) % SIDE_LENGTH_STEP = 0 }

\* The side lengths whose lattice is drawn: the reachable ones and the even
\* ones a caller may pass.
GridSides == ReachableSides \cup {10, 20, 40}

\* The first cell: col = 0, row = -num_rows.
GridFirst ==
    /\ grid # <<>>
    /\ grid.pc = "begin"
    /\ grid' = Cell(grid.side, 0, -NumRows(grid.side))
    /\ UNCHANGED <<appVars, envVars, hpc, trial_i, frame, line, trace, sample>>

\* row++, and col++ at the end of a column; the loops end at col = num_cols.
GridAdvance ==
    /\ grid # <<>>
    /\ grid.pc = "cell"
    /\ grid' = IF grid.row + 1 < NumRows(grid.side)
               THEN Cell(grid.side, grid.col, grid.row + 1)
               ELSE IF grid.col + 1 < NumCols(grid.side)
               THEN Cell(grid.side, grid.col + 1, -NumRows(grid.side))
               ELSE [grid EXCEPT !.pc = "end"]
    /\ UNCHANGED <<appVars, envVars, hpc, trial_i, frame, line, trace, sample>>

GridInit ==
    /\ AppInit
    /\ rand_values = RandValues
    /\ max_requested = MaxRequested
    /\ event_kinds = Events
    /\ hpc = "idle"
    /\ trial_i = 0
    /\ frame = <<>>
    /\ line = <<>>
    /\ trace = <<>>
    /\ sample = <<>>
    /\ \E s \in GridSides : grid = [side |-> s, pc |-> "begin"]

GridNext == GridFirst \/ GridAdvance

GridSpec == GridInit /\ [][GridNext]_vars

(***************************************************************************)
(* One trial of generate_random_pixels, for every value of rand().         *)
(***************************************************************************)
\* rand() % n takes every value of 0..n-1; n is at most MAX_SIDE_LENGTH + 1.
AllResidues == 0..MAX_SIDE_LENGTH

\* The two calls of rand() and the point drawn.
SampleDraw ==
    /\ sample # <<>>
    /\ sample.pc = "draw"
    /\ \E r1 \in AllResidues, r2 \in AllResidues :
          sample' = [side |-> sample.side, pc |-> "drawn",
                     p |-> Candidate(sample.side, r1, r2)]
    /\ UNCHANGED <<appVars, envVars, hpc, trial_i, frame, line, trace, grid>>

SampleInit ==
    /\ AppInit
    /\ rand_values = RandValues
    /\ max_requested = MaxRequested
    /\ event_kinds = Events
    /\ hpc = "idle"
    /\ trial_i = 0
    /\ frame = <<>>
    /\ line = <<>>
    /\ trace = <<>>
    /\ grid = <<>>
    /\ \E s \in ReachableSides : sample = [side |-> s, pc |-> "draw"]

SampleNext == SampleDraw

SampleSpec == SampleInit /\ [][SampleNext]_vars

(***************************************************************************)
(* handle_input step by step on the application's thread, and              *)
(* render_callback on the host's GUI thread.                               *)
(***************************************************************************)
\* handle_input up to the end of the switch: the fields are written.
HandlerDispatch ==
    /\ pc = "loop"
    /\ hpc = "idle"
    /\ state.running
    /\ \E ev \in event_kinds :
          /\ ev.key = "Right" /\ ev.type \in {"Press", "Repeat"}
                => state.num_random_pixels < max_requested
          /\ LET r == IF ev.type # "Press" /\ ev.type # "Repeat"
                      THEN Handled(state, FALSE, FALSE)
                      ELSE KeySwitch(ev, state)
             IN  /\ state' = r.st
                 /\ hpc' = IF r.regenerate_pixels THEN "generate" ELSE "idle"
                 /\ update_calls' = IF r.state_changed THEN 1 ELSE 0
    /\ UNCHANGED <<pc, queue, acquired, released, ret, envVars,
                   trial_i, frame, line, trace, grid, sample>>

\* generate_random_pixels up to state->pixel_count = 0.
GenerateReset ==
    /\ hpc = "generate"
    /\ state' = [state EXCEPT !.pixel_count = 0, !.pixel_buffer = <<>>]
    /\ trial_i' = 0
    /\ hpc' = "trials"
    /\ UNCHANGED <<pc, queue, update_calls, acquired, released, ret, envVars,
                   frame, line, trace, grid, sample>>

\* One iteration of the trial loop.
GenerateTrial ==
    /\ hpc = "trials"
    /\ TrialGuard(trial_i, state.num_random_pixels, state.pixel_count)
    /\ \E o \in TrialOutcomes(state.side_length, rand_values) :
          state' = [state EXCEPT !.pixel_buffer = @ \o o,
                                 !.pixel_count = @ + Len(o)]
    /\ trial_i' = trial_i + 1
    /\ UNCHANGED <<pc, queue, update_calls, acquired, released, ret, envVars,
                   hpc, frame, line, trace, grid, sample>>

\* The loop condition fails, and handle_input returns.
GenerateReturn ==
    /\ hpc = "trials"
    /\ ~TrialGuard(trial_i, state.num_random_pixels, state.pixel_count)
    /\ hpc' = "idle"
    /\ trial_i' = 0
    /\ UNCHANGED <<pc, state, queue, update_calls, acquired, released, ret,
                   envVars, frame, line, trace, grid, sample>>

\* render_callback: draw_pattern reads side_length, pixel_count and the
\* buffer's entries below it, while handle_input is where hpc says.
Render ==
    /\ pc = "loop"
    /\ frame' = [side_length |-> state.side_length,
                 num_random_pixels |-> state.num_random_pixels,
                 pixel_count |-> state.pixel_count,
                 pixel_buffer |-> state.pixel_buffer,
                 during |-> hpc]
    /\ UNCHANGED <<appVars, envVars, hpc, trial_i, line, trace, grid, sample>>

\* The application after start-up, at the head of the event loop.
RaceInit ==
    /\ pc = "loop"
    /\ state \in generate_random_pixels(InitialState, RandValues)
    /\ queue = <<>>
    /\ update_calls = 0
    /\ acquired = <<"state", "pixel_buffer", "event_queue", "view_port", "gui">>
    /\ released = <<>>
    /\ ret = <<>>
    /\ OtherIdle
    /\ rand_values = RandValues
    /\ max_requested = MaxRequested
    /\ event_kinds = Events

RaceNext ==
    \/ HandlerDispatch
    \/ GenerateReset
    \/ GenerateTrial
    \/ GenerateReturn
    \/ Render

RaceSpec == RaceInit /\ [][RaceNext]_vars

(***************************************************************************)
(* Properties.                                                             *)
(***************************************************************************)
Has(seq, r) == \E i \in 1..Len(seq) : seq[i] = r

Count(seq, r) == Cardinality({ i \in 1..Len(seq) : seq[i] = r })

Reverse(seq) == [i \in 1..Len(seq) |-> seq[Len(seq) + 1 - i]]

\* karl_main has set the fields of AppState.
Initialised == Has(acquired, "pixel_buffer")

\* The step is a loop iteration that got an event from the queue.
Dequeued == pc = "loop" /\ Len(queue') < Len(queue)

\* The step is a loop iteration whose wait on the queue timed out.
TimedOut == pc = "loop" /\ pc' = "loop" /\ queue = <<>> /\ queue' = <<>>

HeadIs(k, types) ==
    queue # <<>> /\ Head(queue).key = k /\ Head(queue).type \in types

Pressed == {"Press", "Repeat"}

\* C1: once the fields are set, side_length is one of 5, 7, ..., 63 in every
\* state, whatever the events; an Up press or repeat handled at 63 leaves it
\* at 63 and a Down press or repeat handled at 5 leaves it at 5.
C1_SideLengthBounds ==
    /\ [](Initialised => state.side_length \in ReachableSides)
    /\ [][/\ (Dequeued /\ HeadIs("Up", Pressed)
                 /\ state.side_length = MAX_SIDE_LENGTH)
                => state'.side_length = MAX_SIDE_LENGTH
          /\ (Dequeued /\ HeadIs("Down", Pressed)
                 /\ state.side_length = MIN_SIDE_LENGTH)
                => state'.side_length = MIN_SIDE_LENGTH]_vars

\* C1's case: an Up repeat is about to be handled at the largest side, which
\* 29 steps of 2 have reached.
C1_Witness ==
    /\ pc = "loop"
    /\ state.running
    /\ state.side_length = MAX_SIDE_LENGTH
    /\ HeadIs("Up", {"Repeat"})

\* C2: once the fields are set, 0 <= pixel_count <= 200 and pixel_count <=
\* num_random_pixels in every state: the sampler makes at most
\* num_random_pixels trials and stops at the buffer's capacity.
C2_CountBounded ==
    Initialised =>
        /\ 0 <= state.pixel_count
        /\ state.pixel_count <= MAX_PIXELS
        /\ state.pixel_count <= state.num_random_pixels
        /\ state.pixel_count = Len(state.pixel_buffer)

\* C2's case: more pixels are requested than the buffer holds, and the
\* buffer is full.
C2_Witness ==
    /\ Initialised
    /\ state.num_random_pixels = MAX_PIXELS + 1
    /\ state.pixel_count = MAX_PIXELS

\* Every stored pixel is one the sampler stores for side_length.
PixelsFit(buffer, count, side_length) ==
    LET base_vertices == get_triangle_vertices(0, 0, side_length, TRUE)
        base_center == get_triangle_center(base_vertices)
    IN  \A i \in 1..count :
           /\ point_in_triangle(buffer[i].x, buffer[i].y, base_vertices)
           /\ buffer[i] # base_center

Drawn(st) ==
    <<st.side_length, st.num_random_pixels, st.show_centers,
      st.pixel_buffer, st.pixel_count>>

\* C4, as claimed: a loop iteration that got an event calls view_port_update
\* exactly once if handling it changed any field of AppState and not at all
\* otherwise, and an iteration that timed out never calls it.
C4_RedrawIffAnyFieldChanged ==
    [][/\ Dequeued => (update_calls' = (IF state' # state THEN 1 ELSE 0))
       /\ TimedOut => (update_calls' = 0)]_vars

\* C4, amended: a loop iteration that got an event calls view_port_update
\* exactly once if handling it changed side_length, num_random_pixels,
\* show_centers or the pixel set, and not at all otherwise (a Back press
\* clears running and schedules nothing); an iteration that timed out never
\* calls it and changes no field.
C4_RedrawIffDrawnFieldChanged ==
    [][/\ Dequeued =>
            (update_calls' = (IF Drawn(state') # Drawn(state) THEN 1 ELSE 0))
       /\ TimedOut => (update_calls' = 0 /\ state' = state)]_vars

\* C4's case: a Left press was handled, the count went down to 0 and a
\* redraw was scheduled.
C4_Witness ==
    /\ pc = "loop"
    /\ update_calls = 1
    /\ state.num_random_pixels = 0
    /\ state.side_length = MAX_SIDE_LENGTH
    /\ ~state.show_centers

\* C5: a handled Back press or repeat clears running; running is true from
\* the moment the fields are set until then, and only that clears it; once
\* it is false no field changes, no event is got and no redraw is
\* scheduled; and the loop is left and karl_main returns.
C5_BackIsTerminal ==
    /\ [][/\ (Dequeued /\ HeadIs("Back", Pressed)) => ~state'.running
          /\ (~Initialised /\ Initialised') => state'.running
          /\ (Initialised /\ state.running /\ ~state'.running)
                => (Dequeued /\ HeadIs("Back", Pressed))
          /\ (Initialised /\ ~state.running)
                => (/\ state' = state
                    /\ update_calls' = update_calls
                    /\ Len(queue') >= Len(queue))]_vars
    /\ (Initialised /\ ~state.running) ~> (pc = "done" /\ ret = <<0>>)

\* C5's case: karl_main has returned after a Back press, and an event put
\* later is still in the queue.
C5_Witness ==
    /\ pc = "done"
    /\ ~state.running
    /\ queue # <<>>
    /\ state.side_length > MIN_SIDE_LENGTH

\* The pixels a line from (x1, y1) to (x2, y2) visits.
LineLength(l) == Max(l.dx, l.dy) + 1

\* C6: a dash-dot line visits max(|x2-x1|, |y2-y1|) + 1 pixels and then ends,
\* the first is its start point and the last its end point, each next to the
\* one before, and the k-th (from 0) is drawn iff pattern[k mod 5] = 1.
C6_DashDotLine ==
    line # <<>> =>
        /\ Len(trace) <= LineLength(line)
        /\ (line.pc = "done") = (Len(trace) = LineLength(line))
        /\ Len(trace) >= 1 => (trace[1].x = line.x1 /\ trace[1].y = line.y1)
        /\ line.pc = "done" =>
              (/\ trace[Len(trace)].x = line.x2
               /\ trace[Len(trace)].y = line.y2)
        /\ \A k \in 1..Len(trace) :
              /\ trace[k].drawn =
                    (DASH_DOT_PATTERN[((k - 1) % DASH_DOT_PATTERN_LENGTH) + 1] = 1)
              /\ k > 1 => (/\ Abs(trace[k].x - trace[k - 1].x) <= 1
                           /\ Abs(trace[k].y - trace[k - 1].y) <= 1
                           /\ <<trace[k].x, trace[k].y>>
                                 # <<trace[k - 1].x, trace[k - 1].y>>)

\* C6's case: the line from (0,0) to (4,0) is finished: draw, skip, draw,
\* draw, skip at x = 0..4.
C6_Witness ==
    /\ line # <<>>
    /\ line.pc = "done"
    /\ <<line.x1, line.y1, line.x2, line.y2>> = <<0, 0, 4, 0>>
    /\ trace = [k \in 1..5 |->
                  [x |-> k - 1, y |-> 0, drawn |-> k \in {1, 3, 4}]]

StartupPcs == {"start", "alloc_buffer", "alloc_queue", "alloc_view_port"}

TheResources == {"state", "pixel_buffer", "event_queue", "view_port", "gui"}

\* C7: a failed acquisition ends karl_main with a nonzero value, with what
\* was acquired released once each in reverse order, straight from start-up
\* and for good (the loop is not entered); a run that returns 0 has acquired
\* the five resources and released each exactly once; nothing is ever
\* released twice or without having been acquired.
C7_StartupCleanup ==
    /\ [](/\ pc = "failed" => (/\ ret # <<>>
                               /\ ret[1] # 0
                               /\ released = Reverse(acquired)
                               /\ ~Has(acquired, "gui"))
          /\ pc = "done" => (/\ ret = <<0>>
                             /\ \A r \in TheResources :
                                   /\ Count(acquired, r) = 1
                                   /\ Count(released, r) = 1)
          /\ pc \notin {"failed", "done"} => ret = <<>>
          /\ \A r \in TheResources :
                /\ Count(released, r) <= Count(acquired, r)
                /\ Count(acquired, r) <= 1)
    /\ [][/\ pc' = "failed" => pc \in StartupPcs
          /\ pc # "failed"]_vars

\* C7's case: the view port could not be allocated; the queue, the buffer
\* and the state were released in that order.
C7_Witness ==
    /\ pc = "failed"
    /\ acquired = <<"state", "pixel_buffer", "event_queue">>
    /\ released = <<"event_queue", "pixel_buffer", "state">>

\* C8, as claimed: for every cell the renderer visits, the cell points right
\* iff (col + row) mod 2 = 0, its four neighbours point the other way, the
\* right-hand x of its column is base_x of the next column, and the ends of
\* the diagonal it shares with the cell of the next row have equal
\* coordinates.
C8_SeamsMatch ==
    grid # <<>> /\ grid.pc = "cell" =>
        LET s == grid.side
            c == grid.col
            r == grid.row
            right == get_triangle_vertices(c + 1, r, s, PointingRight(c + 1, r))
            below == get_triangle_vertices(c, r + 1, s, PointingRight(c, r + 1))
            v == grid.vertices
        IN  /\ grid.pointing_right = ((c + r) % 2 = 0)
            /\ PointingRight(c + 1, r) # grid.pointing_right
            /\ PointingRight(c, r + 1) # grid.pointing_right
            /\ PointingRight(c, r - 1) # grid.pointing_right
            /\ c > 0 => (PointingRight(c - 1, r) # grid.pointing_right)
            /\ BaseX(c, s) + TruncHeight(s) = BaseX(c + 1, s)
            /\ BaseY(r, s) + s \div 2 = BaseY(r + 1, s)
            /\ IF grid.pointing_right
               THEN /\ v[3] = right[1]
                    /\ v[2] = below[1]
                    /\ v[3] = below[2]
               ELSE /\ v[2] = right[1]
                    /\ v[3] = right[2]
                    /\ v[1] = below[1]
                    /\ v[3] = below[3]

\* The integer points of the reference triangle's bounding box.
BoundingBox(side_length) ==
    LET v == get_triangle_vertices(0, 0, side_length, TRUE)
    IN  { Pt(x, y) : x \in v[1].x..v[3].x, y \in v[1].y..v[2].y }

\* The points a trial can draw.
Candidates(side_length) ==
    { Candidate(side_length, r1, r2) : r1 \in AllResidues, r2 \in AllResidues }

\* C9, as claimed: the points a trial can draw are exactly the integer points
\* of the reference triangle's bounding box, so that every point of the
\* triangle but its centroid can be stored.
C9_CandidatesAreBoundingBox ==
    sample # <<>> =>
        /\ sample.pc = "drawn" => (sample.p \in BoundingBox(sample.side))
        /\ Candidates(sample.side) = BoundingBox(sample.side)

\* C10, as claimed: render_callback never runs while handle_input is under
\* way; the frame it draws holds a pixel set generated for the side_length
\* and the num_random_pixels it reads.
C10_FrameConsistent ==
    frame # <<>> =>
        /\ frame.during = "idle"
        /\ frame.pixel_count <= frame.num_random_pixels
        /\ PixelsFit(frame.pixel_buffer, frame.pixel_count, frame.side_length)

====
